---- MODULE Spec2Model ----
(***************************************************************************)
(* Model of the GMT binding layer: gmt/clib/functions.py (create_session,  *)
(* call_module) and gmt/figure.py (figure, _unique_name, Figure).          *)
(*                                                                         *)
(* Python strings that the code takes apart (file names, extensions,       *)
(* format codes, keyword values) are sequences of one-character strings.   *)
(* Opaque strings (figure names, module names, session addresses) are      *)
(* atoms.  An exception is the field "raised" of the execution context     *)
(* that every function threads through: once it is set, the rest of the    *)
(* enclosing function bodies is skipped, as in Python.                     *)
(*                                                                         *)
(* The native library is outside the repository.  What it returns is       *)
(* drawn from small sets by the actions (an "oracle" record); what it is   *)
(* asked to do is appended to "trace", the sequence of native events of    *)
(* the operation in progress.                                              *)
(***************************************************************************)
EXTENDS Integers, Sequences, FiniteSets, TLC

VARIABLES
    figs,       \* figs[i] is the _name of the i-th Figure object created
    open,       \* native sessions created and not yet destroyed
    tmpfiles,   \* gmt-python-* temporary files existing in os.path.curdir
    trace,      \* native events of the operation just run, in order
    last        \* the operation just run: its inputs and how it ended

vars == <<figs, open, tmpfiles, trace, last>>

(* ------------------------------ bounds -------------------------------- *)

\* Number of Figure objects a behaviour creates.
MaxFigs == 2

(* ------------------------------ inputs -------------------------------- *)

\* The names tempfile can draw ('gmt-python-' plus a random suffix).
Names == {"gmt-python-a", "gmt-python-b"}

NULL == "NULL"
\* Addresses the native library can hand out for a session.
Handles == {"0x1", "0x2"}
\* Status codes of GMT_Call_Module: zero is success.
Statuses == {0, 1}

Png == <<"p", "n", "g">>
Pdf == <<"p", "d", "f">>
Jpg == <<"j", "p", "g">>
Bmp == <<"b", "m", "p">>
Eps == <<"e", "p", "s">>
Tif == <<"t", "i", "f">>
Gif == <<"g", "i", "f">>
Stem == <<"m">>

\* File names given to savefig: the six supported extensions, an unsupported
\* one, no extension, a dot file, an upper-case extension, and a dot that
\* belongs to the directory part.
FNames ==
    { Stem \o <<".">> \o x : x \in {Png, Pdf, Jpg, Bmp, Eps, Tif, Gif} }
    \cup { Stem, <<".">> \o Png, Stem \o <<".", "P", "N", "G">>,
           <<"d", ".", "p", "n", "g", "/", "m">> }

Orientations == {"portrait", "landscape", "sideways"}

(* ------------------------ execution context --------------------------- *)

\* An event of the native boundary.  e is the entry point ("write" is the
\* file a module materialises); the other fields are its arguments and
\* what it returned.
Event(e, h, module, args, status) ==
    [e |-> e, h |-> h, module |-> module, args |-> args, status |-> status]

\* The state a Python call runs in and leaves behind.
\*   raised   : "" or the exception propagating out of the call
\*   ret      : the value returned (when nothing is raised)
\*   pskw     : the keyword arguments of every Figure.psconvert invocation
\*   feasible : the oracle's answers are ones the native library can give
Ctx(tr, op, rs, rt, kw, fs) ==
    [trace |-> tr, open |-> op, raised |-> rs, ret |-> rt, pskw |-> kw,
     feasible |-> fs]

Emit(c, ev) == [c EXCEPT !.trace = Append(@, ev)]
Raise(c, exc) == [c EXCEPT !.raised = exc]
Return(c, v) == [c EXCEPT !.ret = v]

(* ------------------------- the native library ------------------------- *)

\* GMT_Create_Session: returns the address h of a new session, or NULL.
\* An address in use is never handed out again before it is destroyed.
GMT_Create_Session(c, h) ==
    LET c1 == Emit(c, Event("GMT_Create_Session", h, "", <<>>, 0))
    IN  IF h = NULL
        THEN Return(c1, NULL)
        ELSE Return([c1 EXCEPT !.open = @ \cup {h},
                                !.feasible = @ /\ h \notin c.open], h)

GMT_Destroy_Session(c, h) ==
    [Emit(c, Event("GMT_Destroy_Session", h, "", <<>>, 0))
        EXCEPT !.open = @ \ {h}]

\* The value of flag -<key> in an argument string, <<>> when absent.
FlagValue(args, key) ==
    LET hit == { i \in 1..Len(args) :
                   Len(args[i]) >= 2 /\ args[i][1] = "-" /\ args[i][2] = key }
    IN  IF hit = {} THEN <<>>
        ELSE LET i == CHOOSE j \in hit : TRUE
             IN  SubSeq(args[i], 3, Len(args[i]))

\* The extension psconvert gives the file of a format code (JPEG when no
\* code is given).
ExtOfCode(code) ==
    CASE code = <<"g">> -> Png
      [] code = <<"G">> -> Png
      [] code = <<"f">> -> Pdf
      [] code = <<"j">> -> Jpg
      [] code = <<"b">> -> Bmp
      [] code = <<"e">> -> Eps
      [] code = <<"t">> -> Tif
      [] OTHER -> Jpg

\* GMT_Call_Module: runs the module and returns status.  A successful
\* psconvert materialises the file <prefix>.<extension of the code>.
GMT_Call_Module(c, h, module, args, status) ==
    LET c1 == Emit(c, Event("GMT_Call_Module", h, module, args, status))
        file == FlagValue(args, "F") \o <<".">> \o ExtOfCode(FlagValue(args, "T"))
    IN  IF module = "psconvert" /\ status = 0
        THEN Return(Emit(c1, Event("write", NULL, module, <<file>>, 0)), status)
        ELSE Return(c1, status)

(* ----------------------- gmt/clib/functions.py ------------------------ *)

\* create_session without its assertion.
create_session_unchecked(c, h) ==
    GMT_Create_Session(c, h)

\* create_session that also starts a modern-mode session in the library.
create_session_begin(c, h) ==
    LET c1 == GMT_Create_Session(c, h)
    IN  IF c1.ret = NULL
        THEN Raise(c1, "AssertionError")
        ELSE Return(GMT_Call_Module(c1, h, "begin", <<>>, 0), h)

create_session(c, h) ==
    LET c1 == GMT_Create_Session(c, h)
    IN  IF c1.ret = NULL
        THEN Raise(c1, "AssertionError")
        ELSE c1

\* call_module that drops the returned status.
call_module_ignore(c, session, module, args, status) ==
    Return(GMT_Call_Module(c, session, module, args, status), NULL)

call_module(c, session, module, args, status) ==
    LET c1 == GMT_Call_Module(c, session, module, args, status)
    IN  IF c1.ret # 0
        THEN Raise(c1, "AssertionError")
        ELSE Return(c1, NULL)

(* --------------------------- APISession ------------------------------- *)

\* __enter__: the session of create_session, bound by "as session".
APISession_enter(c, h) == create_session(c, h)

\* __exit__: destroys the session; an exception raised in the block goes on.
APISession_exit(c, session) == GMT_Destroy_Session(c, session)

(* --------------------------- gmt/figure.py ---------------------------- *)

\* '{} {}'.format(name, fmt): two words of the argument string.
Format2(a, b) == << <<a>>, <<b>> >>

\* figure that closes its session only after a successful call.
figure_leak(c, name, h, status) ==
    LET c1 == APISession_enter(c, h)
    IN  IF c1.raised # "" THEN c1
        ELSE LET c2 == call_module(c1, c1.ret, "figure", Format2(name, "-"), status)
             IN  IF c2.raised # "" THEN c2 ELSE APISession_exit(c2, c1.ret)

figure(c, name, h, status) ==
    LET fmt == "-"
        c1 == APISession_enter(c, h)
    IN  IF c1.raised # "" THEN c1
        ELSE APISession_exit(
                 call_module(c1, c1.ret, "figure", Format2(name, fmt), status),
                 c1.ret)

\* NamedTemporaryFile creates a file whose name n is not taken in the
\* directory; close() deletes it (delete=True).  Returns the name and the
\* files left behind.
_unique_name(files, n) ==
    LET created == files \cup {n}
        closed == created \ {n}
    IN  [name |-> n, files |-> closed]

(* keyword arguments: a set of <<key, value>> pairs, at most one per key  *)

Keys(kw) == { p[1] : p \in kw }
Get(kw, k) == (CHOOSE p \in kw : p[1] = k)[2]
Set(kw, k, v) == { p \in kw : p[1] # k } \cup { <<k, v>> }

\* A Python bool as a keyword value.
Bool(b) == IF b THEN <<"True">> ELSE <<"False">>

\* @use_alias(F='prefix', T='fmt', A='crop', E='dpi', P='portrait'): the
\* long names are replaced by the one-letter options.
Aliases ==
    { <<"prefix", "F">>, <<"fmt", "T">>, <<"crop", "A">>, <<"dpi", "E">>,
      <<"portrait", "P">> }

use_alias(kw) ==
    { IF p[1] \in Keys(Aliases) THEN <<Get(Aliases, p[1]), p[2]>> ELSE p
        : p \in kw }

\* @kwargs_to_strings(): True becomes the empty string, False drops the
\* argument.
kwargs_to_strings(kw) ==
    { IF p[2] = Bool(TRUE) THEN <<p[1], <<>> >> ELSE p
        : p \in { q \in kw : q[2] # Bool(FALSE) } }

\* sorted() of the option letters.
KeyOrder == <<"A", "E", "F", "P", "T">>

\* build_arg_string: '-<key><value>' for each key in sorted order.
build_arg_string(kw) ==
    LET ks == SelectSeq(KeyOrder, LAMBDA k : k \in Keys(kw))
    IN  [i \in 1..Len(ks) |-> <<"-", ks[i]>> \o Get(kw, ks[i])]

(* ------------------------- os.path, str ------------------------------- *)

\* The last position of character ch in p, 0 when absent (rfind, 1-based).
RFind(p, ch) ==
    LET at == { i \in 1..Len(p) : p[i] = ch }
    IN  IF at = {} THEN 0 ELSE CHOOSE i \in at : \A j \in at : j <= i

\* os.path.splitext: the extension starts at the last dot of the last path
\* component; leading dots of that component do not start an extension.
splitext(p) ==
    LET sepIndex == RFind(p, "/")
        dotIndex == RFind(p, ".")
    IN  IF dotIndex > sepIndex
           /\ \E k \in (sepIndex + 1)..(dotIndex - 1) : p[k] # "."
        THEN <<SubSeq(p, 1, dotIndex - 1), SubSeq(p, dotIndex, Len(p))>>
        ELSE <<p, <<>> >>

\* s[1:]
DropFirst(s) == IF s = <<>> THEN <<>> ELSE Tail(s)

\* str.upper on one character (the letters the format codes use).
UpperChar(ch) ==
    CASE ch = "g" -> "G"
      [] ch = "f" -> "F"
      [] ch = "j" -> "J"
      [] ch = "b" -> "B"
      [] ch = "e" -> "E"
      [] ch = "t" -> "T"
      [] OTHER -> ch

upper(s) == [i \in 1..Len(s) |-> UpperChar(s[i])]

(* ------------------------------ Figure -------------------------------- *)

\* _preprocess that selects no figure.
_preprocess_skip(c, name, kwargs, h, status) ==
    Return(c, kwargs)

_preprocess(c, name, kwargs, h, status) ==
    LET c1 == figure(c, name, h, status)
    IN  IF c1.raised # "" THEN c1 ELSE Return(c1, kwargs)

\* psconvert that opens its session before selecting the figure.
psconvert_nested(c, name, kwargs_in, o) ==
    LET c0 == [c EXCEPT !.pskw = Append(@, kwargs_in)]
        kw0 == kwargs_to_strings(use_alias(kwargs_in))
        c1 == APISession_enter(c0, o.h2)
    IN  IF c1.raised # "" THEN c1
        ELSE LET session == c1.ret
                 c2 == _preprocess(c1, name, kw0, o.h1, o.s1)
             IN  IF c2.raised # "" THEN APISession_exit(c2, session)
                 ELSE APISession_exit(
                          call_module(c2, session, "psconvert",
                                      build_arg_string(c2.ret), o.s2),
                          session)

psconvert(c, name, kwargs_in, o) ==
    LET c0 == [c EXCEPT !.pskw = Append(@, kwargs_in)]
        kw0 == kwargs_to_strings(use_alias(kwargs_in))
        c1 == _preprocess(c0, name, kw0, o.h1, o.s1)
    IN  IF c1.raised # "" THEN c1
        ELSE LET kw1 == c1.ret
                 kwA == IF "A" \notin Keys(kw1) THEN Set(kw1, "A", <<>>) ELSE kw1
                 kwP == IF "P" \notin Keys(kwA) THEN Set(kwA, "P", <<>>) ELSE kwA
                 c2 == APISession_enter(c1, o.h2)
             IN  IF c2.raised # "" THEN c2
                 ELSE APISession_exit(
                          call_module(c2, c2.ret, "psconvert",
                                      build_arg_string(kwP), o.s2),
                          c2.ret)

\* All supported formats.
fmts ==
    { <<Png, <<"g">> >>, <<Pdf, <<"f">> >>, <<Jpg, <<"j">> >>,
      <<Bmp, <<"b">> >>, <<Eps, <<"e">> >>, <<Tif, <<"t">> >> }

SavefigKwargs(prefix, fmt, crop, portrait) ==
    { <<"prefix", prefix>>, <<"fmt", fmt>>, <<"crop", Bool(crop)>>,
      <<"portrait", Bool(portrait)>> }

\* savefig that upper-cases the code of any format when transparent.
savefig_any_upper(c, name, fname, orientation, transparent, crop, o) ==
    LET portrait == (orientation = "portrait")
        prefix == splitext(fname)[1]
        ext == DropFirst(splitext(fname)[2])
    IN  IF orientation \notin {"portrait", "landscape"}
        THEN Raise(c, "AssertionError")
        ELSE IF ext \notin Keys(fmts)
        THEN Raise(c, "AssertionError")
        ELSE psconvert(c, name,
                 SavefigKwargs(prefix,
                     IF transparent THEN upper(Get(fmts, ext)) ELSE Get(fmts, ext),
                     crop, portrait), o)

\* savefig without the orientation check.
savefig_any_orientation(c, name, fname, orientation, transparent, crop, o) ==
    LET portrait == (orientation = "portrait")
        prefix == splitext(fname)[1]
        ext == DropFirst(splitext(fname)[2])
    IN  IF ext \notin Keys(fmts)
        THEN Raise(c, "AssertionError")
        ELSE IF transparent /\ ext # Png
        THEN Raise(c, "AssertionError")
        ELSE psconvert(c, name,
                 SavefigKwargs(prefix,
                     IF transparent THEN upper(Get(fmts, ext)) ELSE Get(fmts, ext),
                     crop, portrait), o)

\* savefig that checks its arguments only after converting.
savefig_late_check(c, name, fname, orientation, transparent, crop, o) ==
    LET portrait == (orientation = "portrait")
        prefix == splitext(fname)[1]
        ext == DropFirst(splitext(fname)[2])
        fmt == IF ext \in Keys(fmts) THEN Get(fmts, ext) ELSE <<"j">>
        c1 == psconvert(c, name, SavefigKwargs(prefix, fmt, crop, portrait), o)
    IN  IF c1.raised # "" THEN c1
        ELSE IF orientation \notin {"portrait", "landscape"}
                \/ ext \notin Keys(fmts)
                \/ (transparent /\ ext # Png)
        THEN Raise(c1, "AssertionError")
        ELSE c1

savefig(c, name, fname, orientation, transparent, crop, o) ==
    IF orientation \notin {"portrait", "landscape"}
    THEN Raise(c, "AssertionError")
    ELSE
    LET portrait == (orientation = "portrait")
        prefix == splitext(fname)[1]
        ext == DropFirst(splitext(fname)[2])
    IN  IF ext \notin Keys(fmts)
        THEN Raise(c, "AssertionError")
        ELSE
        LET fmt == Get(fmts, ext)
        IN  IF transparent /\ ext # Png
            THEN Raise(c, "AssertionError")
            ELSE psconvert(c, name,
                     SavefigKwargs(prefix,
                         IF transparent THEN upper(fmt) ELSE fmt,
                         crop, portrait), o)

\* with APISession() as session: pass
empty_scope(c, h) ==
    LET c1 == APISession_enter(c, h)
    IN  IF c1.raised # "" THEN c1 ELSE APISession_exit(c1, c1.ret)

(* ----------------------------- behaviour ------------------------------ *)

\* What the native library answers during one operation: the address and
\* the status of the first session's call, then of the second's.
Oracles ==
    [h1 : Handles \cup {NULL}, s1 : Statuses,
     h2 : Handles \cup {NULL}, s2 : Statuses]

\* Keyword arguments given to Figure.psconvert directly.
PsKwargs ==
    { { <<"prefix", Stem>> },
      { <<"prefix", Stem>>, <<"fmt", <<"g">> >>, <<"crop", Bool(FALSE)>> },
      { <<"F", Stem>>, <<"T", <<"e", "f">> >>, <<"dpi", <<"7", "0">> >> } }

Start == Ctx(<<>>, open, "", NULL, <<>>, TRUE)

Op(op, self, fname, orientation, transparent, crop, c) ==
    [op |-> op, self |-> self, fname |-> fname, orientation |-> orientation,
     transparent |-> transparent, crop |-> crop, raised |-> c.raised,
     pskw |-> c.pskw]

\* Between operations: the caller has taken note of the previous result.
Idle == Op("idle", 0, <<>>, "", FALSE, FALSE, Ctx(<<>>, {}, "", NULL, <<>>, TRUE))

Init ==
    /\ figs = <<>>
    /\ open = {}
    /\ tmpfiles = {}
    /\ trace = <<>>
    /\ last = Idle

\* Figure()
NewFigure ==
    /\ last = Idle
    /\ Len(figs) < MaxFigs
    /\ \E n \in Names \ tmpfiles :
         LET r == _unique_name(tmpfiles, n)
         IN  /\ figs' = Append(figs, r.name)
             /\ tmpfiles' = r.files
    /\ trace' = <<>>
    /\ last' = Op("Figure", Len(figs) + 1, <<>>, "", FALSE, FALSE, Start)
    /\ UNCHANGED open

Finish(c, op) ==
    /\ last = Idle
    /\ c.feasible
    /\ trace' = c.trace
    /\ open' = c.open
    /\ last' = op
    /\ UNCHANGED <<figs, tmpfiles>>

\* gmt.figure(name)
CallFigure ==
    \E name \in Names, o \in Oracles :
        LET c == figure(Start, name, o.h1, o.s1)
        IN  /\ last = Idle
            /\ o.h2 = NULL /\ o.s2 = 0
            /\ Finish(c, Op("figure", 0, <<name>>, "", FALSE, FALSE, c))

\* fig.psconvert(**kwargs)
CallPsconvert ==
    /\ last = Idle
    /\ \E i \in 1..Len(figs), kw \in PsKwargs, o \in Oracles :
        LET c == psconvert(Start, figs[i], kw, o)
        IN  Finish(c, Op("psconvert", i, <<>>, "", FALSE, FALSE, c))

\* fig.savefig(fname, orientation, transparent, crop)
CallSavefig ==
    /\ last = Idle
    /\ \E i \in 1..Len(figs), fname \in FNames, orientation \in Orientations,
       transparent \in BOOLEAN, crop \in BOOLEAN, o \in Oracles :
        LET c == savefig(Start, figs[i], fname, orientation, transparent, crop, o)
        IN  Finish(c, Op("savefig", i, fname, orientation, transparent, crop, c))

\* with APISession() as session: pass
CallEmptyScope ==
    \E o \in Oracles :
        LET c == empty_scope(Start, o.h1)
        IN  /\ last = Idle
            /\ o.s1 = 0 /\ o.h2 = NULL /\ o.s2 = 0
            /\ Finish(c, Op("scope", 0, <<>>, "", FALSE, FALSE, c))

\* The caller goes on to its next statement.
Continue ==
    /\ last # Idle
    /\ trace' = <<>>
    /\ last' = Idle
    /\ UNCHANGED <<figs, open, tmpfiles>>

Next ==
    \/ NewFigure
    \/ CallFigure
    \/ CallPsconvert
    \/ CallSavefig
    \/ CallEmptyScope
    \/ Continue

Spec == Init /\ [][Next]_vars

(* ------------------------------ claims -------------------------------- *)

IsCall(ev) == ev.e = "GMT_Call_Module"
IsCreate(ev) == ev.e = "GMT_Create_Session"
IsDestroy(ev) == ev.e = "GMT_Destroy_Session"
IsWrite(ev) == ev.e = "write"

\* The module calls of the operation just run, in order.
Calls == SelectSeq(trace, IsCall)

\* The documented extension -> format code table.
Documented ==
    { <<Png, "g">>, <<Pdf, "f">>, <<Jpg, "j">>, <<Bmp, "b">>, <<Eps, "e">>,
      <<Tif, "t">> }

\* last.fname is <stem>.<ext> for the documented pair d.
NamedFor(d) == last.fname = Stem \o <<".">> \o d[1]

ValidOrientation == last.orientation \in {"portrait", "landscape"}

LowerCodes == { d[2] : d \in Documented }

\* C1: savefig hands psconvert the documented code of the file extension
\* (png->g, pdf->f, jpg->j, bmp->b, eps->e, tif->t) for every supported
\* extension; with transparent=True and png the code is 'G'; a code that is
\* not one of the lower-case codes is passed only for png with
\* transparent=True; and the -T option of the psconvert module call carries
\* that same code.
C1_FormatCode ==
    last.op = "savefig" =>
        /\ \A d \in Documented :
             (NamedFor(d) /\ ValidOrientation /\ (last.transparent => d[1] = Png))
             => /\ Len(last.pskw) = 1
                /\ Get(last.pskw[1], "fmt") =
                     (IF last.transparent THEN <<"G">> ELSE <<d[2]>>)
        /\ \A k \in 1..Len(last.pskw) :
             LET code == Get(last.pskw[k], "fmt")
             IN  /\ \E d \in Documented :
                      NamedFor(d) /\ code \in {<<d[2]>>, <<"G">>}
                 /\ (Len(code) # 1 \/ code[1] \notin LowerCodes)
                      => (NamedFor(<<Png, "g">>) /\ last.transparent /\ code = <<"G">>)
        /\ \A i \in 1..Len(Calls) :
             Calls[i].module = "psconvert"
             => FlagValue(Calls[i].args, "T") = Get(last.pskw[1], "fmt")

C1_Witness ==
    /\ last.op = "savefig"
    /\ last.transparent
    /\ last.orientation = "landscape"
    /\ Len(last.pskw) = 1
    /\ Get(last.pskw[1], "fmt") = <<"G">>
    /\ last.raised = ""
    /\ \E i \in 1..Len(trace) : IsWrite(trace[i])

\* C2: savefig with a file name whose extension is not one of the six
\* supported ones, or with an orientation other than portrait/landscape,
\* raises and makes no native call: no session is created, no module is
\* called and Figure.psconvert is not entered.
C2_InvalidFailsEarly ==
    (last.op = "savefig"
        /\ ((\A d \in Documented : ~NamedFor(d)) \/ ~ValidOrientation))
    => /\ last.raised # ""
       /\ trace = <<>>
       /\ last.pskw = <<>>

C2_Witness ==
    /\ last.op = "savefig"
    /\ last.fname = Stem \o <<".">> \o Gif
    /\ last.orientation = "portrait"
    /\ ~last.transparent
    /\ last.raised = "AssertionError"
    /\ Len(figs) = 2

\* C3: a module call that returns a nonzero status makes the operation
\* raise, and it is the last module call of the operation: nothing is
\* called after it and no file is written.
C3_FailureIsFatal ==
    \A i \in 1..Len(trace) :
        (IsCall(trace[i]) /\ trace[i].status # 0)
        => /\ last.raised = "AssertionError"
           /\ \A j \in (i + 1)..Len(trace) : ~IsCall(trace[j]) /\ ~IsWrite(trace[j])

C3_Witness ==
    /\ last.op = "savefig"
    /\ Len(Calls) = 1
    /\ Calls[1].module = "figure"
    /\ Calls[1].status # 0
    /\ last.raised = "AssertionError"

\* Positions of the trace where a session comes into being / is destroyed.
Created == { i \in 1..Len(trace) : IsCreate(trace[i]) /\ trace[i].h # NULL }
Destroyed == { i \in 1..Len(trace) : IsDestroy(trace[i]) }

\* C4: every session an operation opens is destroyed exactly once, before
\* any other session is created, whether the call inside succeeds or fails;
\* after every operation no session is open.
C4_ScopedLifetime ==
    /\ open = {}
    /\ Cardinality(Created) = Cardinality(Destroyed)
    /\ \A i \in Created :
         \E j \in Destroyed :
            /\ j > i
            /\ trace[j].h = trace[i].h
            /\ \A k \in (i + 1)..(j - 1) : k \notin Created \cup Destroyed

C4_Witness ==
    /\ last.op = "psconvert"
    /\ last.raised = "AssertionError"
    /\ Len(Calls) = 2
    /\ Calls[2].status # 0
    /\ Cardinality(Destroyed) = 2

\* C5: no two Figure objects hold the same _name.
C5_UniqueNames ==
    \A i, j \in 1..Len(figs) : i # j => figs[i] # figs[j]

\* C6: savefig with transparent=True and a supported extension other than
\* png raises with nothing done: no session, no module call, no file.
C6_TransparentOnlyPng ==
    (last.op = "savefig" /\ last.transparent
        /\ \E d \in Documented : d[1] # Png /\ NamedFor(d))
    => /\ last.raised # ""
       /\ trace = <<>>
       /\ last.pskw = <<>>

C6_Witness ==
    /\ last.op = "savefig"
    /\ last.transparent
    /\ last.orientation = "portrait"
    /\ NamedFor(<<Pdf, "f">>)
    /\ last.raised = "AssertionError"
    /\ trace = <<>>

\* C7: an empty session scope asks the native library for a session and
\* destroys it, and nothing else: no module call, no file written, no
\* temporary file left.
C7_EmptyScope ==
    last.op = "scope" =>
        /\ \A i \in 1..Len(trace) : IsCreate(trace[i]) \/ IsDestroy(trace[i])
        /\ Calls = <<>>
        /\ tmpfiles = {}

C7_Witness ==
    /\ last.op = "scope"
    /\ last.raised = ""
    /\ Len(trace) = 2
    /\ IsCreate(trace[1])
    /\ IsDestroy(trace[2])

\* C8: a null handle from the native library is fatal: the operation
\* raises right there, and no module call carries a null session.
C8_NoNullSession ==
    \A i \in 1..Len(trace) :
        /\ IsCall(trace[i]) => trace[i].h # NULL
        /\ (IsCreate(trace[i]) /\ trace[i].h = NULL)
             => (i = Len(trace) /\ last.raised = "AssertionError")

C8_Witness ==
    /\ last.op = "savefig"
    /\ Len(trace) = 4
    /\ IsCreate(trace[4])
    /\ trace[4].h = NULL
    /\ last.raised = "AssertionError"

\* C9: every psconvert module call comes right after a 'figure' module call
\* whose argument is the calling Figure's name and '-'; a successful
\* savefig makes exactly the two calls figure, psconvert.
C9_FigureBeforePsconvert ==
    /\ \A i \in 1..Len(Calls) :
         Calls[i].module = "psconvert"
         => /\ i > 1
            /\ last.self \in 1..Len(figs)
            /\ Calls[i - 1].module = "figure"
            /\ Calls[i - 1].args = << <<figs[last.self]>>, <<"-">> >>
    /\ (last.op = "savefig" /\ last.raised = "")
         => /\ Len(Calls) = 2
            /\ Calls[1].module = "figure"
            /\ Calls[2].module = "psconvert"

C9_Witness ==
    /\ last.op = "savefig"
    /\ last.raised = ""
    /\ last.self = 2
    /\ figs[1] # figs[2]
    /\ Len(Calls) = 2

\* The sessions open after the first i events of the trace.
OpenAt(i) ==
    { trace[j].h : j \in { k \in Created : k <= i /\
          \A d \in Destroyed : (d > k /\ d <= i) => trace[d].h # trace[k].h } }

\* C10: at every point of every operation at most one session is open;
\* a module call uses a session that is open at that point; and figure,
\* psconvert and savefig make exactly one module call in each session they
\* open, closing it before the next one is created.
C10_SingleSession ==
    /\ Cardinality(open) <= 1
    /\ \A i \in 0..Len(trace) : Cardinality(OpenAt(i)) <= 1
    /\ \A i \in 1..Len(trace) : IsCall(trace[i]) => trace[i].h \in OpenAt(i - 1)
    /\ last.op \in {"figure", "psconvert", "savefig"}
         => \A i \in Created :
              /\ i + 1 <= Len(trace) /\ IsCall(trace[i + 1])
              /\ \E j \in Destroyed :
                   /\ j > i + 1
                   /\ \A k \in (i + 2)..(j - 1) : IsWrite(trace[k])

C10_Witness ==
    /\ last.op = "savefig"
    /\ last.raised = ""
    /\ Len(trace) = 7
    /\ IsCreate(trace[1]) /\ IsCreate(trace[4])
    /\ trace[1].h = trace[4].h
    /\ IsDestroy(trace[3]) /\ IsDestroy(trace[7])

====
